---- MODULE Spec2Model ----
(***************************************************************************)
(* Input-to-report pipeline of the ESP32 BLE keypad: the cooperative loop  *)
(* (KEY_Update, SYS_ModeSwitch, KEY_Send, the mode switch of loop()), the  *)
(* 10 ms tick handler KEY_Detect that preempts it between any two          *)
(* statements, and the environment (the five button lines, the BLE link,   *)
(* millis()).                                                              *)
(***************************************************************************)
EXTENDS Integers, Sequences, FiniteSets, TLC

\* ---------------------------------------------------------------- constants
NumKeys == 5
LONG_PRESS_TIME == 1500
PRESET_COUNT == 2

\* ------------------------------------------------------------------- bounds
\* millis() is sampled on a grid: it starts at BootTime and advances
\* TimeStep at a time, at most MaxSteps times.
BootTime == 1000
TimeStep == 1000
MaxSteps == 4

\* The byte found under "preset" when setup() runs is one of 0 .. MaxStored
MaxStored == 2
Persisted == 0 .. MaxStored

Keys == 0 .. (NumKeys - 1)
\* The operator touches one button in an execution, or one of these pairs.
OneKey == {{i} : i \in Keys}
TwoKeys == {{0, 1}, {0, 3}, {1, 3}}

MODE_NORMAL == "MODE_NORMAL"
MODE_TIMER_SET == "MODE_TIMER_SET"
MODE_METRONOME == "MODE_METRONOME"
MODE_KEY_CONFIG == "MODE_KEY_CONFIG"
SystemMode == {MODE_NORMAL, MODE_TIMER_SET, MODE_METRONOME, MODE_KEY_CONFIG}

\* A report handed to send2Ble: the active buffer of button i, or the all-zero
\* buffer `release`; NoReport before the first one. Every keymap of the two
\* presets is non-zero (sys.cpp:36-63), so the two kinds never coincide.
KeyReport(i) == i
RELEASE == NumKeys
NoReport == NumKeys + 1

VARIABLES
    pin,                \* pressed(KEY_PINS[i]): the physical line of button i
    connected,          \* keybrick.isConnected()
    now,                \* millis()
    keyState,           \* keyState[i]: isPressed, shouldSend, isReleased
    keyLongPressed,
    keyPressStartTime,
    sendRelease,
    enableKey,
    currentMode,
    currentPreset,
    kBuf,               \* k1Buf..k5Buf: the preset whose keymap each holds
    pc,                 \* position of the cooperative loop
    ku,                 \* KEY_Update's loop index
    ks,                 \* KEY_Send's loop index
    ret,                \* where the running KEY_Update or SYS_ApplyPreset returns to
    presetIndex,        \* SYS_ApplyPreset's argument
    ap,                 \* the buffers SYS_ApplyPreset has copied in this call
    calls,              \* calls of SYS_ApplyPreset made on their own
    samples,            \* the voltages still to be measured, in hundredths of a volt
    BAT_Voltage,        \* battery.c:20, as a multiple of 2^-22 V
    batLog,             \* each sample measured so far with BAT_GetPercentage's result
    isAnyKeyPressed,    \* key.c:66: the value the running KEY_Update will return
    user,               \* the buttons the operator touches in this execution
    watch,              \* the buttons whose presses and reports are observed
    lastSent,           \* the last report handed to send2Ble
    touched,            \* the buttons KEY_Update has ever debounced as pressed
    leftNormal,         \* currentMode has been set to another mode than Normal
    sentFor,            \* per-button reports of i since its press was debounced
    seen,               \* a tick has set shouldSend[i] during the present press
    outstanding,        \* i's report was emitted and no tick has seen i released
    owed,               \* a tick has set sendRelease since the last all-zero report
                        \* (for a button that is watched)
    latchCnt,           \* times key.c:93 raised the latch of i in the present hold
    holdStart,          \* millis() when the present hold of i was debounced
    outsidePress,       \* the last press of i was debounced outside Normal mode
    boundary,           \* currentMode left Normal and no all-zero report since
    heldAtReturn,       \* i has been down ever since currentMode became Normal
    passed,             \* calls of SYS_ModeSwitch that left the set latch of i alone
    waited,             \* SYS_ModeSwitch acted on Key 1's latch in this pass of loop()
    cycle,              \* KEY_Send calls begun and ended since all was released
    shut                \* the gate found the link down since the last press

envVars == <<pin, connected, now>>
keyVars == <<keyState, keyLongPressed, keyPressStartTime, sendRelease>>
sysVars == <<enableKey, currentMode, currentPreset, kBuf>>
ctlVars == <<pc, ku, ks, ret>>
apVars == <<presetIndex, ap>>
unitVars == <<calls, samples, BAT_Voltage, batLog>>
sideVars == <<unitVars, isAnyKeyPressed>>
hostVars == <<lastSent, sentFor, outstanding, owed>>
pressVars == <<touched, seen, latchCnt, holdStart, outsidePress>>
modeObs == <<leftNormal, boundary, heldAtReturn, passed, waited>>
obsVars == <<user, watch, apVars, sideVars,
             hostVars, pressVars, modeObs, cycle, shut>>
vars == <<pin, connected, now, keyState, keyLongPressed, keyPressStartTime,
          sendRelease, enableKey, currentMode, currentPreset, kBuf,
          pc, ku, ks, ret, user, watch, apVars, sideVars,
          lastSent, touched, leftNormal, sentFor, seen,
          outstanding, owed, latchCnt, holdStart, outsidePress, boundary, heldAtReturn, passed, waited,
          cycle,
          shut>>

\* millis() - keyPressStartTime[i]: the times explored stay far below the
\* 2^32 ms wrap of millis(), and a start time is never later than millis()
Elapsed(a, b) == a - b

\* --------------------------------------------------------------------- Init
\* The bounds check with > for >=
OutOfRange_Above(p) == p > PRESET_COUNT

\* sys.cpp:227: the bounds check of SYS_ApplyPreset
OutOfRange(p) == p >= PRESET_COUNT

\* sys.cpp:200-206: getUChar hands back the byte kept under "preset" as it
\* is, and SYS_LoadPreset assigns it to the uint8_t currentPreset
SYS_LoadPreset(stored) == stored % 256

\* key.c:39-43: k1Buf..k5Buf hold their initialisers, the keymap of no preset
Initialisers == PRESET_COUNT

\* key.c:15-46, sys.cpp:18,74 and setup(): SYS_LoadPreset reads the persisted
\* index and SYS_ApplyPreset(currentPreset) copies that preset into the five
\* buffers, or returns at once and leaves them as they were initialised.
InitKeyState == [i \in Keys |-> [isPressed |-> FALSE, shouldSend |-> FALSE,
                                 isReleased |-> FALSE]]

SetupFrom(stored) ==
    /\ pin = [i \in Keys |-> FALSE]
    /\ connected = FALSE
    /\ now = BootTime
    /\ keyState = InitKeyState
    /\ keyLongPressed = [i \in Keys |-> FALSE]
    /\ keyPressStartTime = [i \in Keys |-> 0]
    /\ sendRelease = FALSE
    /\ enableKey = TRUE
    /\ currentMode = MODE_NORMAL
    /\ currentPreset = SYS_LoadPreset(stored)
    /\ kBuf = [i \in Keys |-> IF OutOfRange(SYS_LoadPreset(stored))
                                THEN Initialisers
                                ELSE SYS_LoadPreset(stored)]
    /\ ku = 0
    /\ ks = 0
    /\ presetIndex = 0
    /\ ap = NumKeys
    /\ calls = 0
    /\ BAT_Voltage = 0
    /\ batLog = << >>
    /\ isAnyKeyPressed = FALSE
    /\ lastSent = NoReport
    /\ touched = {}
    /\ leftNormal = FALSE
    /\ sentFor = [i \in Keys |-> 0]
    /\ seen = [i \in Keys |-> FALSE]
    /\ outstanding = [i \in Keys |-> FALSE]
    /\ owed = FALSE
    /\ latchCnt = [i \in Keys |-> 0]
    /\ holdStart = [i \in Keys |-> 0]
    /\ outsidePress = [i \in Keys |-> FALSE]
    /\ boundary = "closed"
    /\ heldAtReturn = [i \in Keys |-> FALSE]
    /\ passed = [i \in Keys |-> 0]
    /\ waited = FALSE
    /\ cycle = "idle"
    /\ shut = FALSE

\* Nothing is persisted yet: getUChar returns its default, 0
Setup == SetupFrom(0)

\* The first pass of loop() begins
Boot == Setup /\ pc = "KU_sample" /\ ret = "loop"

\* One button, each press and report of it observed
Init == Boot /\ user \in OneKey /\ watch = user /\ samples = << >>

\* Two buttons, the reports observed as the host sees them
InitPairs == Boot /\ user \in TwoKeys /\ watch = {} /\ samples = << >>

\* Key 1 and Key 2, the first two buttons SYS_ModeSwitch looks at, used
\* together
InitLatch == Boot /\ user = {0, 1} /\ watch = {} /\ samples = << >>

\* Any byte may be found under "preset"; the operator uses Key 1 and Key 4,
\* the buttons that enter PresetConfig, select and confirm
InitLoad ==
    /\ \E stored \in Persisted : SetupFrom(stored)
    /\ pc = "KU_sample" /\ ret = "loop"
    /\ user = {0, 3} /\ watch = {} /\ samples = << >>

\* -------------------------------------------------------------- environment
\* A line is read only by KEY_Update's two samples of it (key.c:72,74): a
\* change of the line is taken at the read that first sees it.
AboutToRead(i) == pc \in {"KU_sample", "KU_resample"} /\ ku = i

Press(i) ==
    /\ AboutToRead(i)
    /\ ~pin[i]
    /\ pin' = [pin EXCEPT ![i] = TRUE]
    /\ UNCHANGED <<connected, now, keyVars, sysVars, ctlVars, obsVars>>

Release(i) ==
    /\ AboutToRead(i)
    /\ pin[i]
    /\ pin' = [pin EXCEPT ![i] = FALSE]
    /\ heldAtReturn' = [heldAtReturn EXCEPT ![i] = FALSE]
    /\ UNCHANGED <<connected, now, keyVars, sysVars, ctlVars, user, watch, apVars, sideVars,
                   hostVars,
                   pressVars, leftNormal, boundary, passed, waited, cycle,
                   shut>>

Connect ==
    /\ ~connected
    /\ connected' = TRUE
    /\ UNCHANGED <<pin, now, keyVars, sysVars, ctlVars, obsVars>>

Disconnect ==
    /\ connected
    /\ connected' = FALSE
    /\ UNCHANGED <<pin, now, keyVars, sysVars, ctlVars, obsVars>>

\* Only differences millis() - keyPressStartTime[i] are read, so the clock is
\* advanced only while some hold is being timed.
Timing == \E i \in Keys : keyPressStartTime[i] # 0

Tick ==
    /\ Timing
    /\ now + TimeStep <= BootTime + MaxSteps * TimeStep
    /\ now' = now + TimeStep
    /\ UNCHANGED <<pin, connected, keyVars, sysVars, ctlVars, obsVars>>

\* ------------------------------------------------- the report to the host
\* keybrick.send2Ble(buf): buf is `release` or the buffer of one button
Send2Ble(r) ==
    /\ lastSent' = r
    /\ owed' = (owed /\ r # RELEASE)
    /\ IF r = RELEASE
       THEN /\ boundary' = "closed"
            /\ UNCHANGED <<sentFor, outstanding>>
       ELSE /\ sentFor' = [sentFor EXCEPT
                              ![r] = IF r \in watch /\ @ < 2 THEN @ + 1 ELSE @]
            /\ outstanding' = [outstanding EXCEPT ![r] = r \in watch]
            /\ UNCHANGED boundary
    /\ UNCHANGED <<user, watch, apVars, sideVars,
                   pressVars, leftNormal, heldAtReturn, passed, waited>>

\* --------------------------------------------------- KEY_Detect (the tick)
\* DetectOne dropping the pending report of a button it finds up
DetectOne_DropWhenUp(s) ==
    IF s.isReleased
    THEN IF ~s.isPressed THEN [s EXCEPT !.isReleased = FALSE] ELSE s
    ELSE [s EXCEPT !.shouldSend = s.isPressed]

\* main.cpp:58-74 for one button
DetectOne(s) ==
    IF s.isReleased
    THEN IF ~s.isPressed THEN [s EXCEPT !.isReleased = FALSE] ELSE s
    ELSE IF s.isPressed THEN [s EXCEPT !.shouldSend = TRUE] ELSE s

\* main.cpp:67-73: the tick asks for the button's report
DetectPress(s) == ~s.isReleased /\ s.isPressed

\* DetectRelease without main.cpp:60-61: the tick never asks for the release
DetectRelease_Never(s) == FALSE

\* main.cpp:58-63: the button asks for the all-zero report
DetectRelease(s) == s.isReleased /\ ~s.isPressed

KEY_Detect ==
    /\ keyState' = [i \in Keys |-> DetectOne(keyState[i])]
    /\ sendRelease' = (sendRelease \/ \E i \in Keys : DetectRelease(keyState[i]))
    /\ seen' = [i \in Keys |->
                  seen[i] \/ (i \in watch /\ DetectPress(keyState[i]))]
    /\ outstanding' = [i \in Keys |->
                         outstanding[i] /\ ~DetectRelease(keyState[i])]
    /\ owed' = (owed \/ \E i \in watch : DetectRelease(keyState[i]))
    /\ UNCHANGED <<envVars, keyLongPressed, keyPressStartTime, sysVars,
                   ctlVars, user, watch, apVars, sideVars,
                   lastSent, sentFor, touched, latchCnt,
                   holdStart, outsidePress, modeObs, cycle, shut>>

\* --------------------------------------------------------------- KEY_Update
\* key.c:92
HoldExpired(i) == Elapsed(now, keyPressStartTime[i]) > LONG_PRESS_TIME

\* StartAfter without key.c:100: a release leaves the hold timer running
StartAfter_NoReset(i, p) ==
    IF p
    THEN IF keyPressStartTime[i] = 0 THEN now
         ELSE IF HoldExpired(i) THEN 0 ELSE keyPressStartTime[i]
    ELSE keyPressStartTime[i]

\* key.c:86-102: the hold timer of button i once its level p is debounced
StartAfter(i, p) ==
    IF p
    THEN IF keyPressStartTime[i] = 0 THEN now
         ELSE IF HoldExpired(i) THEN 0 ELSE keyPressStartTime[i]
    ELSE 0

\* key.c:92-93: the level p makes this pass latch the long press
Latches(i, p) == p /\ keyPressStartTime[i] # 0 /\ HoldExpired(i)

\* LatchAfter with a release clearing the latch
LatchAfter_ClearOnRelease(i, p) ==
    IF Latches(i, p) THEN TRUE ELSE p /\ keyLongPressed[i]

\* key.c:86-102: the latch of button i once its level p is debounced; only
\* key.c:93 writes it
LatchAfter(i, p) == IF Latches(i, p) THEN TRUE ELSE keyLongPressed[i]

\* key.c:93 turns the latch of button i from false to true
Raises(i, p) == Latches(i, p) /\ ~keyLongPressed[i]

\* key.c:69,103-105 and the two callers: the next button, or the return
KU_Next ==
    IF ku < NumKeys - 1
    THEN pc' = "KU_sample" /\ ku' = ku + 1 /\ UNCHANGED <<ks, ret>>
    ELSE /\ pc' = (IF ret = "loop" THEN "ModeSwitch" ELSE "MS_wait")
         /\ ku' = 0
         /\ UNCHANGED <<ks, ret>>

\* key.c:76-102 for button ku with debounced level p
KU_Store(p) ==
    /\ keyState' = [keyState EXCEPT ![ku].isPressed = p]
    /\ keyPressStartTime' = [keyPressStartTime EXCEPT ![ku] = StartAfter(ku, p)]
    /\ keyLongPressed' = [keyLongPressed EXCEPT ![ku] = LatchAfter(ku, p)]
    /\ isAnyKeyPressed' = (IF ku = 0 THEN p ELSE isAnyKeyPressed \/ p)
    /\ KU_Next
    /\ IF p /\ ~keyState[ku].isPressed
       THEN /\ touched' = touched \cup {ku}
            /\ sentFor' = [sentFor EXCEPT ![ku] = 0]
            /\ seen' = [seen EXCEPT ![ku] = FALSE]
            /\ holdStart' = [holdStart EXCEPT
                                ![ku] = IF ku \in watch THEN now ELSE @]
            /\ latchCnt' = [latchCnt EXCEPT
                               ![ku] = IF ku \in watch /\ Raises(ku, p)
                                       THEN 1 ELSE 0]
            /\ outsidePress' = [outsidePress EXCEPT
                                   ![ku] = ku \in watch
                                           /\ currentMode # MODE_NORMAL]
       ELSE /\ latchCnt' = [latchCnt EXCEPT ![ku] =
                               IF ~p THEN 0
                               ELSE IF ku \in watch /\ Raises(ku, p) /\ @ < 2
                                    THEN @ + 1 ELSE @]
            /\ holdStart' = [holdStart EXCEPT ![ku] = IF p THEN @ ELSE 0]
            /\ UNCHANGED <<touched, sentFor, seen, outsidePress>>
    /\ cycle' = (IF p THEN "idle" ELSE cycle)
    /\ shut' = (shut /\ ~(p /\ ~keyState[ku].isPressed /\ ku \in watch))
    /\ UNCHANGED <<envVars, sendRelease, sysVars, user, watch, apVars, unitVars,
                   lastSent, outstanding, owed,
                   modeObs>>

\* key.c:72: the first sample
KU_Sample ==
    /\ pc = "KU_sample"
    /\ IF pin[ku]
       THEN /\ pc' = "KU_resample"
            /\ UNCHANGED <<envVars, keyVars, sysVars, ku, ks, ret, obsVars>>
       ELSE KU_Store(FALSE)

\* KU_Resample without the second read: the first sample is trusted
KU_Resample_Trusting ==
    /\ pc = "KU_resample"
    /\ KU_Store(TRUE)

\* key.c:73-80: the sample after delay(5)
KU_Resample ==
    /\ pc = "KU_resample"
    /\ KU_Store(pin[ku])

\* ----------------------------------------------------------- SYS_ModeSwitch
\* Toggle without the way back of sys.cpp:93-96: the key's mode, always
Toggle_OneWay(m, own) == IF m = own THEN own ELSE own

\* sys.cpp:93-101, 120-128, 138-146: the toggle of the mode owned by a button
Toggle(m, own) == IF m = own THEN MODE_NORMAL ELSE own

ModeOf(i) == CASE i = 0 -> MODE_KEY_CONFIG
               [] i = 1 -> MODE_TIMER_SET
               [] i = 2 -> MODE_METRONOME

\* The order of sys.cpp:90,117,135 reversed: Key 3 before Key 2 before Key 1
Honored_Reversed ==
    IF keyLongPressed[2] THEN 2
    ELSE IF keyLongPressed[1] THEN 1
    ELSE IF keyLongPressed[0] THEN 0
    ELSE NumKeys

\* sys.cpp:90,117,135: the latch this call honors (NumKeys: none)
Honored ==
    IF keyLongPressed[0] THEN 0
    ELSE IF keyLongPressed[1] THEN 1
    ELSE IF keyLongPressed[2] THEN 2
    ELSE NumKeys

\* What an assignment of m to currentMode means for the observers
ModeObserved(m) ==
    /\ leftNormal' = (leftNormal \/ m # MODE_NORMAL)
    /\ boundary' = IF currentMode = MODE_NORMAL /\ m # MODE_NORMAL
                      /\ \E i \in Keys : pin[i]
                   THEN (IF enableKey THEN "enabled" ELSE "disabled")
                   ELSE boundary
    /\ heldAtReturn' = IF m = MODE_NORMAL /\ currentMode # MODE_NORMAL
                       THEN [i \in Keys |-> i \in watch /\ pin[i]]
                       ELSE heldAtReturn
    /\ passed' = IF pc = "ModeSwitch"
                 THEN [i \in Keys |->
                          IF i = Honored \/ i > 2 \/ ~keyLongPressed[i] THEN 0
                          ELSE passed[i] + 1]
                 ELSE passed
    /\ waited' = (pc = "ModeSwitch" /\ Honored = 0)

ModeSwitch ==
    /\ pc = "ModeSwitch"
    /\ IF Honored = NumKeys
       THEN /\ pc' = "Gate"
            /\ UNCHANGED <<envVars, keyVars, sysVars, ku, ks, ret, obsVars>>
       ELSE /\ currentMode' = Toggle(currentMode, ModeOf(Honored))
            /\ IF Honored = 0
               THEN /\ pc' = "MS_wait"
                    /\ UNCHANGED <<keyLongPressed, keyPressStartTime>>
               ELSE /\ pc' = "Gate"
                    /\ keyLongPressed' = [keyLongPressed EXCEPT ![Honored] = FALSE]
                    /\ keyPressStartTime' = [keyPressStartTime EXCEPT ![Honored] = 0]
            /\ ModeObserved(Toggle(currentMode, ModeOf(Honored)))
            /\ UNCHANGED <<envVars, keyState, sendRelease, enableKey,
                           currentPreset, kBuf, ku, ks, ret, user, watch, apVars, sideVars,
                           hostVars, pressVars, cycle, shut>>

\* MS_Wait without the loop of sys.cpp:106-109: the call returns at once
MS_Wait_NoWait ==
    /\ pc = "MS_wait"
    /\ keyLongPressed' = [keyLongPressed EXCEPT ![0] = FALSE]
    /\ keyPressStartTime' = [keyPressStartTime EXCEPT ![0] = 0]
    /\ pc' = "Gate"
    /\ ret' = "loop"
    /\ UNCHANGED <<envVars, keyState, sendRelease, sysVars, ku, ks, obsVars>>

\* sys.cpp:106-113: wait for Key 1 to be released, then clear its latch
MS_Wait ==
    /\ pc = "MS_wait"
    /\ IF keyState[0].isPressed
       THEN /\ pc' = "KU_sample"
            /\ ku' = 0
            /\ ret' = "wait"
            /\ UNCHANGED <<envVars, keyVars, sysVars, ks, obsVars>>
       ELSE /\ keyLongPressed' = [keyLongPressed EXCEPT ![0] = FALSE]
            /\ keyPressStartTime' = [keyPressStartTime EXCEPT ![0] = 0]
            /\ pc' = "Gate"
            /\ ret' = "loop"
            /\ UNCHANGED <<envVars, keyState, sendRelease, sysVars, ku, ks,
                           obsVars>>

\* ------------------------------------------------------- loop(): the gate
\* The gate without the test of the link
GateOpen_IgnoreLink == enableKey

\* main.cpp:184-192
GateOpen == connected /\ enableKey

\* Every button is up, the release debounced and seen by the tick
AllUp == \A i \in Keys : ~pin[i] /\ ~keyState[i].isPressed
                          /\ ~keyState[i].isReleased

Gate ==
    /\ pc = "Gate"
    /\ pc' = (IF GateOpen THEN "KS_chkSend" ELSE "ModeCase")
    /\ ks' = 0
    /\ cycle' = (IF GateOpen
                 THEN (IF AllUp /\ touched # {} THEN "begun" ELSE "idle")
                 ELSE cycle)
    /\ shut' = (watch # {} /\ (shut \/ ~connected))
    /\ UNCHANGED <<envVars, keyVars, sysVars, ku, ret, user, watch, apVars, sideVars,
                   hostVars,
                   pressVars, modeObs>>

\* ----------------------------------------------------------------- KEY_Send
\* main.cpp:265,294: the next button, or the release part
KS_Next ==
    IF ks < NumKeys - 1
    THEN pc' = "KS_chkSend" /\ ks' = ks + 1
    ELSE pc' = "KS_relChk" /\ ks' = 0

\* main.cpp:267, left operand
KS_ChkSend ==
    /\ pc = "KS_chkSend"
    /\ IF keyState[ks].shouldSend
       THEN pc' = "KS_chkRel" /\ UNCHANGED ks
       ELSE KS_Next
    /\ UNCHANGED <<envVars, keyVars, sysVars, ku, ret, obsVars>>

\* main.cpp:267, right operand
KS_ChkRel ==
    /\ pc = "KS_chkRel"
    /\ IF ~keyState[ks].isReleased
       THEN pc' = "KS_emit" /\ UNCHANGED ks
       ELSE KS_Next
    /\ UNCHANGED <<envVars, keyVars, sysVars, ku, ret, obsVars>>

\* main.cpp:271-288
KS_Emit ==
    /\ pc = "KS_emit"
    /\ Send2Ble(KeyReport(ks))
    /\ pc' = "KS_setRel"
    /\ UNCHANGED <<envVars, keyVars, sysVars, ku, ks, ret, cycle, shut>>

\* KS_SetRel without the assignment of main.cpp:291
KS_SetRel_Skip ==
    /\ pc = "KS_setRel"
    /\ pc' = "KS_clrSend"
    /\ UNCHANGED <<envVars, keyVars, sysVars, ku, ks, ret, obsVars>>

\* main.cpp:291
KS_SetRel ==
    /\ pc = "KS_setRel"
    /\ keyState' = [keyState EXCEPT ![ks].isReleased = TRUE]
    /\ pc' = "KS_clrSend"
    /\ UNCHANGED <<envVars, keyLongPressed, keyPressStartTime, sendRelease,
                   sysVars, ku, ks, ret, obsVars>>

\* main.cpp:292
KS_ClrSend ==
    /\ pc = "KS_clrSend"
    /\ keyState' = [keyState EXCEPT ![ks].shouldSend = FALSE]
    /\ KS_Next
    /\ UNCHANGED <<envVars, keyLongPressed, keyPressStartTime, sendRelease,
                   sysVars, ku, ret, obsVars>>

\* main.cpp:297
KS_RelChk ==
    /\ pc = "KS_relChk"
    /\ pc' = (IF sendRelease THEN "KS_relEmit" ELSE "ModeCase")
    /\ cycle' = (IF ~sendRelease /\ cycle = "begun" THEN "done" ELSE cycle)
    /\ UNCHANGED <<envVars, keyVars, sysVars, ku, ks, ret, user, watch, apVars, sideVars,
                   hostVars,
                   pressVars, modeObs, shut>>

\* main.cpp:299
KS_RelEmit ==
    /\ pc = "KS_relEmit"
    /\ Send2Ble(RELEASE)
    /\ pc' = "KS_relClr"
    /\ UNCHANGED <<envVars, keyVars, sysVars, ku, ks, ret, cycle, shut>>

\* main.cpp:300
KS_RelClr ==
    /\ pc = "KS_relClr"
    /\ sendRelease' = FALSE
    /\ pc' = "ModeCase"
    /\ cycle' = (IF cycle = "begun" THEN "done" ELSE cycle)
    /\ UNCHANGED <<envVars, keyState, keyLongPressed, keyPressStartTime,
                   sysVars, ku, ks, ret, user, watch, apVars, sideVars,
                   hostVars, pressVars,
                   modeObs, shut>>

\* --------------------------------------------- loop(): the switch on mode
\* Boundary without the test of main.cpp:204: every pass in Normal crosses it
Boundary_Unguarded == IF currentMode = MODE_NORMAL THEN TRUE ELSE enableKey

\* main.cpp:204,215,225,235: this pass crosses the mode boundary
Boundary == IF currentMode = MODE_NORMAL THEN ~enableKey ELSE enableKey

\* main.cpp:202-210, 214-220, 224-230, 234-241: the entry part of each case
ModeCase ==
    /\ pc = "ModeCase"
    /\ IF Boundary
       THEN Send2Ble(RELEASE)
       ELSE UNCHANGED <<user, watch, apVars, sideVars,
                        hostVars, pressVars, modeObs>>
    /\ enableKey' = (currentMode = MODE_NORMAL)
    /\ pc' = "InMode"
    /\ UNCHANGED <<envVars, keyVars, currentMode, currentPreset, kBuf,
                   ku, ks, ret, cycle, shut>>

\* sys.cpp:162-178: Key 4 selects the previous preset, Key 5 the next
PresetAfter(p, prev, next) ==
    LET a == IF prev THEN (p + PRESET_COUNT - 1) % PRESET_COUNT ELSE p
    IN  IF next THEN (a + 1) % PRESET_COUNT ELSE a

\* main.cpp:211,221,231,242: the in-mode logic. SYS_KeyConfig (sys.cpp:158-
\* 185) selects a preset and, when Key 1 is down, calls SYS_ApplyPreset with
\* it; in every other case the loop starts over.
InMode ==
    LET p == PresetAfter(currentPreset, keyState[3].isPressed,
                         keyState[4].isPressed)
        confirm == currentMode = MODE_KEY_CONFIG /\ keyState[0].isPressed
    IN  /\ pc = "InMode"
        /\ currentPreset' = (IF currentMode = MODE_KEY_CONFIG THEN p
                             ELSE currentPreset)
        /\ IF confirm
           THEN /\ presetIndex' = p
                /\ ap' = 0
                /\ pc' = "AP_guard"
                /\ ret' = "KC_return"
                /\ ku' = ku
           ELSE /\ pc' = "KU_sample"
                /\ ku' = 0
                /\ ret' = "loop"
                /\ UNCHANGED apVars
        /\ waited' = FALSE
        /\ UNCHANGED <<envVars, keyVars, enableKey, currentMode, kBuf, ks,
                       user, watch, sideVars, hostVars, pressVars, leftNormal,
                       boundary, heldAtReturn, passed, cycle, shut>>

\* sys.cpp:227-230: an index out of range returns at once
AP_Guard ==
    /\ pc = "AP_guard"
    /\ pc' = (IF OutOfRange(presetIndex) THEN ret ELSE "AP_copy")
    /\ UNCHANGED <<envVars, keyVars, sysVars, ku, ks, ret, obsVars>>

\* The copy that returns after k3Buf
AP_Copy_Three ==
    /\ pc = "AP_copy"
    /\ kBuf' = [kBuf EXCEPT ![ap] = presetIndex]
    /\ ap' = ap + 1
    /\ pc' = (IF ap + 1 = 3 THEN ret ELSE "AP_copy")
    /\ UNCHANGED <<envVars, keyVars, enableKey, currentMode, currentPreset,
                   ku, ks, ret, presetIndex, user, watch, sideVars, hostVars,
                   pressVars, modeObs, cycle, shut>>

\* sys.cpp:233-237: the memcpy into k1Buf, then k2Buf, ... k5Buf; after the
\* fifth the call returns (the tone and the delay change nothing here)
AP_Copy ==
    /\ pc = "AP_copy"
    /\ kBuf' = [kBuf EXCEPT ![ap] = presetIndex]
    /\ ap' = ap + 1
    /\ pc' = (IF ap + 1 = NumKeys THEN ret ELSE "AP_copy")
    /\ UNCHANGED <<envVars, keyVars, enableKey, currentMode, currentPreset,
                   ku, ks, ret, presetIndex, user, watch, sideVars, hostVars,
                   pressVars, modeObs, cycle, shut>>

\* sys.cpp:186-187: back in SYS_KeyConfig, the mode returns to Normal and
\* the loop starts over
KC_Return ==
    /\ pc = "KC_return"
    /\ currentMode' = MODE_NORMAL
    /\ ModeObserved(MODE_NORMAL)
    /\ pc' = "KU_sample"
    /\ ku' = 0
    /\ ret' = "loop"
    /\ UNCHANGED <<envVars, keyVars, enableKey, currentPreset, kBuf, ks,
                   user, watch, apVars, sideVars, hostVars, pressVars,
                   cycle, shut>>

\* --------------------------------------------------------------------- Next
Loop ==
    \/ KU_Sample \/ KU_Resample
    \/ ModeSwitch \/ MS_Wait
    \/ Gate
    \/ KS_ChkSend \/ KS_ChkRel \/ KS_Emit \/ KS_SetRel \/ KS_ClrSend
    \/ KS_RelChk \/ KS_RelEmit \/ KS_RelClr
    \/ ModeCase \/ InMode
    \/ AP_Guard \/ AP_Copy \/ KC_Return

Env ==
    \/ \E i \in user : Press(i)
    \/ \E i \in user : Release(i)
    \/ Connect \/ Disconnect
    \/ Tick

Next == Loop \/ KEY_Detect \/ Env

Spec == Init /\ [][Next]_vars

SpecPairs == InitPairs /\ [][Next]_vars

SpecLatch == InitLatch /\ [][Next]_vars

SpecLoad == InitLoad /\ [][Next]_vars

TypeOK ==
    /\ pin \in [Keys -> BOOLEAN]
    /\ connected \in BOOLEAN
    /\ now \in Nat
    /\ keyState \in [Keys -> [isPressed : BOOLEAN, shouldSend : BOOLEAN,
                              isReleased : BOOLEAN]]
    /\ keyLongPressed \in [Keys -> BOOLEAN]
    /\ \A i \in Keys : keyPressStartTime[i] \in Nat
    /\ sendRelease \in BOOLEAN
    /\ enableKey \in BOOLEAN
    /\ currentMode \in SystemMode
    /\ currentPreset \in 0 .. 255
    /\ pc \in {"KU_sample", "KU_resample", "ModeSwitch", "MS_wait", "Gate",
               "KS_chkSend", "KS_chkRel", "KS_emit", "KS_setRel", "KS_clrSend",
               "KS_relChk", "KS_relEmit", "KS_relClr", "ModeCase", "InMode",
               "AP_guard", "AP_copy", "KC_return", "Unit"}
    /\ ku \in Keys
    /\ ks \in Keys
    /\ ret \in {"loop", "wait", "KC_return", "Unit"}
    /\ presetIndex \in 0 .. 255
    /\ ap \in 0 .. NumKeys
    /\ kBuf \in [Keys -> (0 .. (PRESET_COUNT - 1)) \cup {Initialisers}]
    /\ isAnyKeyPressed \in BOOLEAN

\* ------------------------------------------- SYS_ApplyPreset on its own
\* SYS_ApplyPreset is called MaxCalls times, each time with an index drawn
\* from 0 .. MaxIndex, starting from the state setup() leaves.
MaxCalls == 6
MaxIndex == 3

\* A caller of SYS_ApplyPreset(uint8_t) other than SYS_KeyConfig
CallApplyPreset ==
    /\ pc = "Unit"
    /\ calls < MaxCalls
    /\ calls' = calls + 1
    /\ \E p \in 0 .. MaxIndex : presetIndex' = p
    /\ ap' = 0
    /\ pc' = "AP_guard"
    /\ UNCHANGED <<envVars, keyVars, sysVars, ku, ks, ret, user, watch,
                   samples, BAT_Voltage, batLog, isAnyKeyPressed, hostVars,
                   pressVars, modeObs, cycle, shut>>

InitPreset ==
    /\ Setup /\ user = {} /\ watch = {} /\ samples = << >>
    /\ pc = "Unit" /\ ret = "Unit"

NextPreset == CallApplyPreset \/ AP_Guard \/ AP_Copy

SpecPreset == InitPreset /\ [][NextPreset]_vars

\* ------------------------------------------------- battery.c: the lookup
\* BAT_GetPercentage is applied to two samples in turn, each drawn from the
\* grid of hundredths of a volt MinCenti .. MaxCenti.
MinCenti == 200
MaxCenti == 500
Grid == MinCenti .. MaxCenti

\* A voltage is a float; it is held here as the integer number of 2^-22 V
\* it is worth, which is exact for every float from 2 V up. Float32(c) is the
\* float nearest to c/100 V (c/100 is never half-way between two floats):
\* the spacing of floats is 2^-22 V below 4 V and 2^-21 V from 4 V to 8 V.
Float32(c) ==
    IF c < 400 THEN (c * 2^22 + 50) \div 100
    ELSE 2 * ((c * 2^21 + 50) \div 100)

\* battery.c:34-48
Lipoly_LUT == <<
    [voltage |-> Float32(415), percentage |-> 100],
    [voltage |-> Float32(405), percentage |-> 95],
    [voltage |-> Float32(397), percentage |-> 90],
    [voltage |-> Float32(390), percentage |-> 80],
    [voltage |-> Float32(380), percentage |-> 70],
    [voltage |-> Float32(373), percentage |-> 60],
    [voltage |-> Float32(367), percentage |-> 50],
    [voltage |-> Float32(361), percentage |-> 40],
    [voltage |-> Float32(356), percentage |-> 30],
    [voltage |-> Float32(350), percentage |-> 20],
    [voltage |-> Float32(342), percentage |-> 10],
    [voltage |-> Float32(335), percentage |-> 5],
    [voltage |-> Float32(325), percentage |-> 0] >>

\* battery.c:50
LUT_SIZE == Len(Lipoly_LUT)

\* Single-precision arithmetic, round to nearest, ties to even. A positive
\* float is the record [m, x] worth m * 2^-x with 2^23 <= m < 2^24.
RECURSIVE DivBits(_, _, _, _)
\* Long division: Q the quotient bits so far, r the remainder, k their number
DivBits(Q, r, k, e) ==
    IF Q >= 2^23 THEN <<Q, r, k>>
    ELSE LET bit == IF 2 * r >= e THEN 1 ELSE 0
         IN  DivBits(2 * Q + bit, 2 * r - bit * e, k + 1, e)

\* d / e for 0 < d <= e
FDiv(d, e) ==
    IF d = e THEN [m |-> 2^23, x |-> 23]
    ELSE LET t == DivBits(0, d, 0, e)
             Q == t[1]
             r == t[2]
             up == 2 * r > e \/ (2 * r = e /\ Q % 2 = 1)
             Q1 == IF up THEN Q + 1 ELSE Q
         IN  IF Q1 = 2^24 THEN [m |-> 2^23, x |-> t[3] - 1]
             ELSE [m |-> Q1, x |-> t[3]]

RECURSIVE Excess(_)
\* The bits P has beyond 24
Excess(P) == IF P < 2^24 THEN 0 ELSE 1 + Excess(P \div 2)

\* q * n for a float q and an integer 0 < n < 2^7
FMul(q, n) ==
    LET P == q.m * n
        s == Excess(P)
        M == P \div 2^s
        rem == P % 2^s
        up == s > 0 /\ (2 * rem > 2^s \/ (2 * rem = 2^s /\ M % 2 = 1))
        M1 == IF up THEN M + 1 ELSE M
    IN  IF M1 = 2^24 THEN [m |-> 2^23, x |-> q.x - s - 1]
        ELSE [m |-> M1, x |-> q.x - s]

RECURSIVE Log2(_)
Log2(n) == IF n < 2 THEN 0 ELSE 1 + Log2(n \div 2)

\* (uint8_t)(pl + f) with the base dropped from the sum
FAddTrunc_NoBase(pl, f) == IF f.x > 24 THEN 0 ELSE f.m \div 2^(f.x)

\* (uint8_t)(pl + f) for an integer 0 <= pl < 2^7 and a float f < 2^7: the
\* sum is rounded to a float, then cut to its integer part. With I the
\* integer part of the exact sum, the rounded sum reaches I + 1 exactly when
\* the fraction left over is within half a spacing of the floats near I.
FAddTrunc(pl, f) ==
    LET t == f.x
        fl == IF t > 24 THEN 0 ELSE f.m \div 2^t
        rem == IF t > 24 THEN 0 ELSE f.m % 2^t
        I == pl + fl
        x == t + Log2(I) - 24
    IN  IF pl = 0 \/ t > 24 THEN I
        ELSE IF x >= 0 /\ 2^t - rem <= 2^x THEN I + 1
        ELSE I

\* battery.c:111
InPair(v, i) == v <= Lipoly_LUT[i].voltage /\ v > Lipoly_LUT[i + 1].voltage

\* The interpolation scaled by pHigh for pHigh - pLow
Interpolate_FullScale(v, i) ==
    LET vHigh == Lipoly_LUT[i].voltage
        vLow == Lipoly_LUT[i + 1].voltage
        pHigh == Lipoly_LUT[i].percentage
        pLow == Lipoly_LUT[i + 1].percentage
    IN  FAddTrunc(pLow, FMul(FDiv(v - vLow, vHigh - vLow), pHigh))

\* battery.c:115-123. The two differences are exact in single precision:
\* the operands are within a factor of two of each other.
Interpolate(v, i) ==
    LET vHigh == Lipoly_LUT[i].voltage
        vLow == Lipoly_LUT[i + 1].voltage
        pHigh == Lipoly_LUT[i].percentage
        pLow == Lipoly_LUT[i + 1].percentage
    IN  FAddTrunc(pLow, FMul(FDiv(v - vLow, vHigh - vLow), pHigh - pLow))

\* battery.c:100-127
BAT_GetPercentage(v) ==
    IF v >= Lipoly_LUT[1].voltage THEN 100
    ELSE IF v <= Lipoly_LUT[LUT_SIZE].voltage THEN 0
    ELSE LET found == {i \in 1 .. (LUT_SIZE - 1) : InPair(v, i)}
         IN  IF found = {} THEN 0
             ELSE Interpolate(v, CHOOSE i \in found : \A j \in found : i <= j)

\* A sample is stored in BAT_Voltage (battery.c:83, main.cpp:134) and
\* BAT_GetPercentage is called (main.cpp:106, sys.cpp:354)
Measure ==
    /\ samples # << >>
    /\ BAT_Voltage' = Float32(Head(samples))
    /\ batLog' = Append(batLog, [sample |-> Head(samples),
                                 pct |-> BAT_GetPercentage(Float32(Head(samples)))])
    /\ samples' = Tail(samples)
    /\ UNCHANGED <<envVars, keyVars, sysVars, ctlVars, user, watch, apVars,
                   calls, isAnyKeyPressed, hostVars, pressVars, modeObs,
                   cycle, shut>>

InitBat ==
    /\ Boot /\ user = {} /\ watch = {}
    /\ samples \in Grid \X Grid

NextBat == Measure

SpecBat == InitBat /\ [][NextBat]_vars

\* ================================================================== claims
KS_pcs == {"KS_chkSend", "KS_chkRel", "KS_emit", "KS_setRel", "KS_clrSend",
           "KS_relChk", "KS_relEmit", "KS_relClr"}

\* Button i is up and nothing of its press is left in the pipeline
Done(i) == /\ ~pin[i]
           /\ ~keyState[i].isPressed
           /\ ~keyState[i].shouldSend
           /\ ~keyState[i].isReleased
           /\ ~sendRelease

\* C1: in Normal mode, with the link up at every pass of the gate since the
\* press was debounced, once the button is released and nothing of the press
\* is left pending, exactly one report of the button was sent for the press
\* and the last report is the all-zero one.
C1_SinglePressFraming ==
    \A i \in watch :
        (~leftNormal /\ ~shut /\ i \in touched /\ Done(i))
            => (sentFor[i] = 1 /\ lastSent = RELEASE)

\* C2: once every button is released and a call of KEY_Send that began after
\* the tick had seen the releases has ended, the last report sent, if any, is
\* the all-zero report.
C2_OneCycleAfterRelease ==
    cycle = "done" => lastSent \in {RELEASE, NoReport}

\* Every button is up and no signal of a press is pending anywhere
Quiet == /\ \A i \in Keys : /\ ~pin[i]
                            /\ ~keyState[i].isPressed
                            /\ ~keyState[i].shouldSend
                            /\ ~keyState[i].isReleased
         /\ ~sendRelease

\* C2 (amended): once every button is released and the signals of the presses
\* are consumed (no shouldSend, isReleased or sendRelease left), the last
\* report sent, if any, is the all-zero report.
C2_NoStuckKey == Quiet => lastSent \in {RELEASE, NoReport}

C2_Witness == Quiet /\ touched = user /\ lastSent = RELEASE /\ cycle = "done"

\* C3: during one uninterrupted hold of a button KEY_Update raises
\* keyLongPressed[i] (key.c:93, from false to true) at most once, however
\* often the latch is cleared in between.
C3_OneShot == \A i \in watch : latchCnt[i] <= 1

\* C4: whenever KEY_Update sets keyLongPressed[i], the present uninterrupted
\* hold of button i has by itself lasted longer than LONG_PRESS_TIME; time
\* held before an earlier release does not count.
C4_NoLatchAcrossHolds ==
    [][\A i \in watch :
          ((keyLongPressed'[i] /\ ~keyLongPressed[i]) \/ latchCnt'[i] > latchCnt[i])
              => /\ holdStart'[i] # 0
                 /\ Elapsed(now, holdStart'[i]) > LONG_PRESS_TIME]_vars

\* A second hold that began one TimeStep after the first, has lasted one
\* TimeStep, and is not latched though the two together exceed the threshold
C4_Witness ==
    \E i \in watch :
        /\ 2 * TimeStep > LONG_PRESS_TIME
        /\ holdStart[i] = BootTime + TimeStep
        /\ now = holdStart[i] + TimeStep
        /\ keyState[i].isPressed
        /\ keyPressStartTime[i] = holdStart[i]
        /\ ~keyLongPressed[i]
        /\ pc = "ModeSwitch"

\* C5: no button has shouldSend and isReleased both true, in any state the
\* tick handler can observe.
C5_NeverBoth ==
    \A i \in Keys : ~(keyState[i].shouldSend /\ keyState[i].isReleased)

\* C6: when the in-mode logic of TimerConfig, Metronome or PresetConfig runs,
\* every change from Normal made while a button was held has been followed
\* by an all-zero report.
C6_ReleaseBeforeInMode ==
    (pc = "InMode" /\ currentMode # MODE_NORMAL) => boundary = "closed"

\* C7: KEY_Send sends no report of a button that has been held ever since
\* the mode returned to Normal.
C7_NoReplayOnReturn == ~(pc = "KS_setRel" /\ heldAtReturn[ks])

\* C8: as long as no button has been debounced as pressed, no report of any
\* kind has been sent.
C8_IdleStability == touched = {} => lastSent = NoReport

C8_Witness == /\ touched = {}
              /\ lastSent = NoReport
              /\ pc = "KS_relChk"
              /\ connected

\* C9: within one call KEY_Send goes through the buttons in order, each at
\* most once, and it sends the report of button i only if no report of i is
\* outstanding, i.e. sent with no release of i seen by KEY_Detect since.
C9_OneReportUntilRelease ==
    [][/\ (pc = "KS_emit" /\ pc' = "KS_setRel") => ~outstanding[ks]
       /\ (pc \in KS_pcs /\ pc' \in KS_pcs /\ pc' # "KS_relChk") => ks' >= ks
       /\ (pc = "KS_clrSend" /\ pc' = "KS_chkSend") => ks' = ks + 1]_vars

\* KEY_Send visits a held button whose report it has sent in an earlier call
C9_Witness ==
    \E i \in watch : /\ pc = "KS_chkSend" /\ ks = i
                     /\ outstanding[i] /\ sentFor[i] = 1
                     /\ keyState[i].isPressed /\ keyState[i].isReleased

\* C10: KEY_Send runs only while currentMode is MODE_NORMAL, and when the
\* gate is evaluated enableKey is true exactly when currentMode is
\* MODE_NORMAL.
C10_DispatchOnlyInNormal ==
    /\ pc \in KS_pcs => currentMode = MODE_NORMAL
    /\ pc = "Gate" => (enableKey <=> currentMode = MODE_NORMAL)

\* C11: between a change of currentMode from Normal made while a button is
\* held and the all-zero report that follows it, KEY_Send sends no
\* per-button report.
C11_ReleaseBeforeFurtherReports == ~(pc = "KS_setRel" /\ boundary = "enabled")

\* C12: when KEY_Send starts its first evaluation after currentMode has left
\* Normal, shouldSend and isReleased are false for all five buttons.
C12_FlagsClearedAtBoundary ==
    (pc = "KS_chkSend" /\ ks = 0 /\ boundary = "enabled")
        => \A i \in Keys : ~keyState[i].shouldSend /\ ~keyState[i].isReleased

\* C13: KEY_Send sends the all-zero report requested through sendRelease only
\* when no button is pressed; in particular not while a button whose report
\* was sent is still held.
C13_ReleaseOnlyWhenAllIdle ==
    pc = "KS_relClr" =>
        ~\E i \in Keys : pin[i] /\ keyState[i].isPressed /\ keyState[i].isReleased

\* The mode a long press of Key 1, Key 2, Key 3 leads to (sys.cpp:100,127,145)
C14_Target == <<MODE_KEY_CONFIG, MODE_TIMER_SET, MODE_METRONOME>>

SpecFair == Spec /\ WF_vars(Loop)

\* C15: every long-press latch is eventually cleared as the loop keeps
\* running; stated for the two buttons whose latch has no mode of its own.
C15_LatchConsumed ==
    \A i \in {3, 4} : keyLongPressed[i] ~> ~keyLongPressed[i]

\* C16: of two measured samples the one with the higher voltage never gets
\* the lower percentage, and every percentage lies in 0 .. 100
C16_MonotoneBounded ==
    /\ \A k \in 1 .. Len(batLog) : batLog[k].pct \in 0 .. 100
    /\ \A j, k \in 1 .. Len(batLog) :
           batLog[j].sample > batLog[k].sample => batLog[j].pct >= batLog[k].pct

\* 3.75 V, then 3.74 V from the same interval of the table: 62, then 61
C16_Witness ==
    /\ Len(batLog) = 2
    /\ batLog[1] = [sample |-> 375, pct |-> 62]
    /\ batLog[2] = [sample |-> 374, pct |-> 61]

\* C17: a sample equal to a voltage of the table gets that entry's
\* percentage, a sample at or above the highest voltage of the table gets 100
\* and a sample at or below the lowest gets 0
C17_HitsAndClamps ==
    \A k \in 1 .. Len(batLog) :
        LET v == Float32(batLog[k].sample)
        IN  /\ \A i \in 1 .. LUT_SIZE :
                   v = Lipoly_LUT[i].voltage
                       => batLog[k].pct = Lipoly_LUT[i].percentage
            /\ v >= Lipoly_LUT[1].voltage => batLog[k].pct = 100
            /\ v <= Lipoly_LUT[LUT_SIZE].voltage => batLog[k].pct = 0

\* 3.67 V, an entry of the table, gave 50 and 4.20 V, above the table, 100
C17_Witness ==
    /\ Len(batLog) = 2
    /\ batLog[1] = [sample |-> 367, pct |-> 50]
    /\ batLog[2] = [sample |-> 420, pct |-> 100]

\* The voltages of the table in hundredths of a volt
C18_Centi == <<415, 405, 397, 390, 380, 373, 367, 361, 356, 350, 342, 335, 325>>

\* pLow + (sample - vLow) / (vHigh - vLow) * (pHigh - pLow) cut to its
\* integer part, computed without rounding, on the decimal voltages
C18_OnDecimals(c) ==
    LET i == CHOOSE j \in 1 .. (LUT_SIZE - 1) :
                 C18_Centi[j + 1] < c /\ c <= C18_Centi[j]
        pLow == Lipoly_LUT[i + 1].percentage
        pHigh == Lipoly_LUT[i].percentage
    IN  pLow + ((c - C18_Centi[i + 1]) * (pHigh - pLow))
                   \div (C18_Centi[i] - C18_Centi[i + 1])

\* The same, computed without rounding on the floats the sample and the
\* table hold
C18_OnFloats(v) ==
    LET i == CHOOSE j \in 1 .. (LUT_SIZE - 1) : InPair(v, j)
        pLow == Lipoly_LUT[i + 1].percentage
        pHigh == Lipoly_LUT[i].percentage
    IN  pLow + ((v - Lipoly_LUT[i + 1].voltage) * (pHigh - pLow))
                   \div (Lipoly_LUT[i].voltage - Lipoly_LUT[i + 1].voltage)

C18_Inside(k) ==
    /\ C18_Centi[LUT_SIZE] < batLog[k].sample
    /\ batLog[k].sample < C18_Centi[1]

\* C18: every sample strictly between the lowest and the highest voltage of
\* the table gets pLow + (sample - vLow) / (vHigh - vLow) * (pHigh - pLow) of
\* its interval, truncated toward zero; the voltages are read either as the
\* decimal values or as the floats stored, the same way for every sample
C18_Interpolation ==
    \/ \A k \in 1 .. Len(batLog) :
           C18_Inside(k) => batLog[k].pct = C18_OnDecimals(batLog[k].sample)
    \/ \A k \in 1 .. Len(batLog) :
           C18_Inside(k) => batLog[k].pct = C18_OnFloats(Float32(batLog[k].sample))
\* C19: the five buffers hold keymaps of two different presets only while
\* the loop is inside SYS_ApplyPreset, between two of its copies, where
\* neither KEY_Send nor another sender of a report runs (KEY_Detect, which
\* does run there, reads no buffer); when SYS_ApplyPreset returns to
\* SYS_KeyConfig all five hold the preset it was called with
C19_PresetApplyAtomic ==
    /\ (\E i, j \in Keys : kBuf[i] # kBuf[j]) => pc = "AP_copy"
    /\ pc = "KC_return" => \A i \in Keys : kBuf[i] = presetIndex

\* SYS_ApplyPreset(1) has copied k1Buf and k2Buf, the other three still hold
\* preset 0, and a tick has meanwhile raised a report for Key 1
C19_Witness ==
    /\ pc = "AP_copy"
    /\ presetIndex = 1
    /\ kBuf = [i \in Keys |-> IF i < 2 THEN 1 ELSE 0]
    /\ keyState[0].shouldSend

\* C20: from a call of SYS_ApplyPreset with presetIndex >= PRESET_COUNT until
\* the next call, no step changes any of the five buffers
C20_OutOfRangeNoOp == [][presetIndex' >= PRESET_COUNT => kBuf' = kBuf]_vars

\* SYS_ApplyPreset(3) has returned and the buffers still hold preset 1, set
\* by an earlier call
C20_Witness ==
    /\ pc = "Unit"
    /\ calls >= 2
    /\ presetIndex = 3
    /\ ap = 0
    /\ \A i \in Keys : kBuf[i] = 1
\* The latch a call of SYS_ModeSwitch acts on by the order Key 1, Key 2,
\* Key 3 (NumKeys: none of the three is set)
C21_First ==
    IF keyLongPressed[0] THEN 0
    ELSE IF keyLongPressed[1] THEN 1
    ELSE IF keyLongPressed[2] THEN 2
    ELSE NumKeys

C22_Stores ==
    /\ pc \in {"KU_sample", "KU_resample"}
    /\ pc' # pc \/ ku' # ku
    /\ ~(pc = "KU_sample" /\ pc' = "KU_resample")

\* C22: a pass of KEY_Update that finds a button with a set latch released
\* resets its timer and leaves the latch set; no step outside SYS_ModeSwitch
\* clears a latch; and a call of SYS_ModeSwitch that finds the first set
\* latch (Key 1, Key 2, Key 3) of a button already released changes the mode
C22_ReleaseKeepsLatch ==
    [][/\ (C22_Stores /\ keyLongPressed[ku] /\ ~keyState'[ku].isPressed)
            => keyLongPressed'[ku] /\ keyPressStartTime'[ku] = 0
       /\ \A i \in Keys :
              (keyLongPressed[i] /\ ~keyLongPressed'[i])
                  => pc \in {"ModeSwitch", "MS_wait"}
       /\ (/\ pc = "ModeSwitch" /\ pc' # "ModeSwitch"
           /\ C21_First # NumKeys
           /\ ~keyState[IF C21_First = NumKeys THEN 0 ELSE C21_First].isPressed)
            => currentMode' # currentMode]_vars

\* Key 2 was latched and then found released by KEY_Update while
\* SYS_ModeSwitch waited for Key 1; the next call is about to act on it
C22_Witness ==
    /\ pc = "ModeSwitch"
    /\ keyLongPressed[1]
    /\ ~keyLongPressed[0]
    /\ ~keyState[1].isPressed
    /\ ~pin[1]
    /\ keyPressStartTime[1] = 0
\* C23: shouldSend[i], once set, is cleared by one step only, the
\* assignment of main.cpp:292 in KEY_Send's pass over button i, which
\* follows the emission of i's report with no other report in between
C23_PendingPersists ==
    [][\A i \in Keys :
          (keyState[i].shouldSend /\ ~keyState'[i].shouldSend)
              => (pc = "KS_clrSend" /\ ks = i /\ lastSent = KeyReport(i))]_vars

\* The report of a button is pending, the button is up again, the link is
\* down and the loop has come to the gate once more
C23_Witness ==
    /\ pc = "Gate"
    /\ ~connected
    /\ shut
    /\ \E i \in Keys : /\ keyState[i].shouldSend
                       /\ ~keyState[i].isPressed
                       /\ ~pin[i]
                       /\ ~keyState[i].isReleased
\* C24, as stated: a per-button report is handed to send2Ble only while the
\* transport is connected
C24_NoReportWhileDown ==
    [][(pc = "KS_emit" /\ pc' = "KS_setRel") => connected]_vars

\* C24: a pass of loop() whose gate finds the transport disconnected does
\* not enter KEY_Send and changes no flag at the gate; a connection or
\* disconnection changes neither shouldSend, isReleased nor sendRelease; and
\* a KEY_Send that runs emits the report of every button it finds with
\* shouldSend set, and the all-zero report when it finds sendRelease set
C24_GateHoldsBack ==
    [][/\ (pc = "Gate" /\ pc' # "Gate" /\ ~connected)
            => /\ pc' = "ModeCase"
               /\ lastSent' = lastSent
               /\ keyState' = keyState
               /\ sendRelease' = sendRelease
       /\ connected' # connected
            => keyState' = keyState /\ sendRelease' = sendRelease
       /\ (pc = "KS_chkSend" /\ pc' # "KS_chkSend" /\ keyState[ks].shouldSend)
            => pc' = "KS_chkRel"
       /\ (pc = "KS_chkRel" /\ pc' # "KS_chkRel") => pc' = "KS_emit"
       /\ (pc = "KS_emit" /\ pc' # "KS_emit") => lastSent' = KeyReport(ks)
       /\ (pc = "KS_relChk" /\ pc' # "KS_relChk" /\ sendRelease)
            => pc' = "KS_relEmit"
       /\ (pc = "KS_relEmit" /\ pc' # "KS_relEmit") => lastSent' = RELEASE]_vars

\* The gate found the link down after the button was pressed, the link came
\* back, and KEY_Send has now emitted the button's report in Normal mode
C24_Witness ==
    /\ pc = "KS_setRel"
    /\ shut
    /\ connected
    /\ currentMode = MODE_NORMAL
    /\ lastSent = KeyReport(ks)
    /\ ks \in watch
\* The rest of a pass of loop() after SYS_ModeSwitch
C25_AfterSwitch == KS_pcs \cup {"Gate", "ModeCase", "InMode"}

\* C25: SYS_ModeSwitch, having acted on Key 1's latch, returns only with
\* keyState[0].isPressed false; it is still false for the rest of that pass
\* of loop(), so the in-mode logic of the pass does not call SYS_ApplyPreset
\* nor change the mode; and while Key 1 is up with SYS_ModeSwitch waiting,
\* either the wait ends or Key 1 goes down again
C25_WaitForRelease ==
    /\ [][/\ (pc = "MS_wait" /\ pc' = "Gate") => ~keyState[0].isPressed
          /\ (waited /\ pc \in C25_AfterSwitch) => ~keyState[0].isPressed
          /\ (waited /\ pc = "InMode" /\ pc' # "InMode")
               => pc' = "KU_sample" /\ currentMode' = currentMode]_vars
    /\ (ret = "wait" /\ ~pin[0]) ~> (ret = "loop" \/ pin[0])

\* PresetConfig was entered by a long press of Key 1 and the pass that
\* entered it has come to SYS_KeyConfig
C25_Witness ==
    /\ waited
    /\ pc = "InMode"
    /\ currentMode = MODE_KEY_CONFIG
    /\ ~keyState[0].isPressed
\* C26: KEY_Update stores isPressed[ku] false when the first sample of the
\* line reads not pressed, goes on to the re-sample when it reads pressed,
\* and then stores what the re-sample reads; at its return the value it
\* returns is true exactly when some button has isPressed true
C26_Debounce ==
    [][/\ (pc = "KU_sample" /\ ~pin[ku] /\ C22_Stores)
            => ~keyState'[ku].isPressed
       /\ (pc = "KU_sample" /\ pin[ku] /\ (pc' # pc \/ ku' # ku))
            => /\ pc' = "KU_resample" /\ ku' = ku
               /\ keyState' = keyState
       /\ (pc = "KU_resample" /\ C22_Stores)
            => keyState'[ku].isPressed = pin[ku]
       /\ (C22_Stores /\ pc' \in {"ModeSwitch", "MS_wait"})
            => isAnyKeyPressed' = (\E i \in Keys : keyState'[i].isPressed)]_vars

\* The first sample of a button read pressed, the line is up when the
\* re-sample is due, and isPressed of the button is false from the pass
\* before
C26_Witness ==
    /\ pc = "KU_resample"
    /\ ~pin[ku]
    /\ ~keyState[ku].isPressed
    /\ ku \in user
\* C27: in Normal mode, with the link up at every pass of the gate since the
\* press was debounced, a press of which nothing is left to come (the button
\* up, no flag of it pending) has had a report of its button emitted
C27_NoPressDropped ==
    \A i \in watch :
        (~leftNormal /\ ~shut /\ i \in touched /\ Done(i)) => sentFor[i] >= 1
\* C28: when every button is up and no signal is pending, so that no report
\* is left to come, an all-zero report has been emitted after the last time
\* KEY_Detect set sendRelease
C28_ReleaseNeverLost == Quiet => ~owed

\* C29: every per-button report KEY_Send emits is the report of a press that
\* KEY_Update debounced while currentMode was Normal; a press debounced in
\* TimerConfig, Metronome or PresetConfig, whose report a tick asked for
\* during that press, is never reported to the host.
C29_OnlyNormalPresses == ~(pc = "KS_setRel" /\ outsidePress[ks] /\ seen[ks])

\* C30: currentPreset is a valid index of presets[] in every reachable state,
\* whatever byte SYS_LoadPreset found and whatever selections were made.
C30_PresetInRange == currentPreset < PRESET_COUNT

====
